---- MODULE Spec2Model ----
(***************************************************************************)
(* Missing Records Detection API: batches and records in a relational     *)
(* store, HTTP handlers that run one database statement at a time, and    *)
(* the reconciliation engine (set difference of expected and processed    *)
(* record identifiers).                                                    *)
(*                                                                         *)
(* The store holds rows; every handler is a sequence of database          *)
(* statements (SELECT / INSERT+COMMIT / DELETE+COMMIT), each of which is  *)
(* one atomic step, so requests of different clients interleave between   *)
(* statements.  processing_rate is kept in hundredths of a percent        *)
(* (6000 is 60.00), the precision round(x, 2) leaves.                     *)
(***************************************************************************)
EXTENDS Integers, Sequences, FiniteSets, TLC

\* ------------------------------------------------------------------ bounds
NumClients == 2          \* clients sending requests concurrently
InitBatches == 2         \* batches the store may hold at start
InitRows == 2            \* rows the store may hold at start
MaxBatches == 3          \* batch ids ever assigned
MaxRows == 4             \* row ids ever assigned
MaxRecordId == 1         \* domain record identifiers in requests
MaxBulk == 2             \* rows of one bulk upload
MaxRequests == 2         \* requests received in one run
EngineRows == 5          \* rows of a store the engine alone is run on
EngineRecordId == 3      \* domain record identifiers in such a store

Clients == 1..NumClients
BatchArgs == 1..MaxBatches
RecordIds == 1..MaxRecordId
BatchNames == {"a", "b"}

\* ------------------------------------------------------------------ enums
EXPECTED == "expected"
PROCESSED == "processed"
RecordStatus == {EXPECTED, PROCESSED}
RecordType == {"order", "transaction", "file", "shipment", "payment"}
TypeInputs == {"order", "payment"}

VARIABLES
    batches,        \* table batches: id -> [batch_name, record_type]
    nextBatchId,    \* autoincrement of batches.id
    records,        \* table records: set of rows [id, record_id, batch_id, status]
    nextRecordId,   \* autoincrement of records.id
    pc,             \* per client: the statement its request is at
    args,           \* per client: the request (operation and inputs)
    local,          \* per client: the handler's local variables
    resp,           \* per client: the response of its last finished request
    started,        \* per client: number of requests it has sent
    snaps           \* history: reconciliations of the store seen during a request

vars == <<batches, nextBatchId, records, nextRecordId, pc, args, local, resp, started, snaps>>
store == <<batches, nextBatchId, records, nextRecordId>>

\* ------------------------------------------------------------------ helpers
RECURSIVE SetToList(_)
\* list(s): the elements of a set in some order
SetToList(S) ==
    IF S = {} THEN <<>>
    ELSE LET x == CHOOSE y \in S : TRUE IN <<x>> \o SetToList(S \ {x})

RECURSIVE Insert(_, _)
Insert(x, s) ==
    IF s = <<>> THEN <<x>>
    ELSE IF x <= Head(s) THEN <<x>> \o s
    ELSE <<Head(s)>> \o Insert(x, Tail(s))

\* a list left as it came
unsorted(l) == l

RECURSIVE sorted(_)
\* sorted(l): ascending, duplicates kept
sorted(l) == IF l = <<>> THEN <<>> ELSE Insert(Head(l), sorted(Tail(l)))

\* set(l): the elements of a list
set(l) == {l[i] : i \in DOMAIN l}

RECURSIVE Orderings(_)
\* the orders in which a query may return a set of rows (no ORDER BY), or
\* list() may iterate a set: every arrangement of its elements
Orderings(S) ==
    IF S = {} THEN {<<>>}
    ELSE UNION {{<<x>> \o o : o \in Orderings(S \ {x})} : x \in S}

RECURSIVE SumOver(_, _)
\* the sum of f over S
SumOver(f, S) == IF S = {} THEN 0 ELSE LET x == CHOOSE y \in S : TRUE IN f[x] + SumOver(f, S \ {x})

\* round(n / d, 0) for n >= 0, d > 0: to nearest, ties to even
RoundHalfEven(n, d) ==
    LET q == n \div d
        r == n % d
    IN  IF 2 * r < d THEN q
        ELSE IF 2 * r > d THEN q + 1
        ELSE IF q % 2 = 0 THEN q ELSE q + 1

\* round((part / whole) * 100, 2), in hundredths
Rate(part, whole) == RoundHalfEven(10000 * part, whole)

\* ------------------------------------------------------------------ schema
\* the column without its UNIQUE constraint
UniqueNameOff(bs, name) == TRUE

\* batch_name is UNIQUE: an INSERT of a stored name raises IntegrityError
UniqueNameOk(bs, name) == \A i \in DOMAIN bs : bs[i].batch_name # name

\* the engine enforces the declared foreign keys
ForeignKeysEnforced == TRUE

\* the column without its FOREIGN KEY
ForeignKeyOff(bs, b) == TRUE

\* records.batch_id REFERENCES batches.id: checked on INSERT of a record
ForeignKeyOk(bs, b) == ForeignKeysEnforced => b \in DOMAIN bs

\* ... and on DELETE of a batch: no remaining row may reference it
NoChildren(rs, b) == ForeignKeysEnforced => \A r \in rs : r.batch_id # b

\* A new row takes the next value of its table's id sequence; the value of a
\* deleted row is not handed out again.
AutoIncrement(next) == next

\* ------------------------------------------------------------------ queries
\* The rows of a table a statement reads: those committed when it runs.  Every
\* statement reads afresh (read committed); a request holds no snapshot.
Visible(table) == table

\* Python's None: what .first() returns when no row matches
None == [none |-> TRUE]

\* db.query(Batch).filter(Batch.id == batch_id).first()
get_batch_by_id(bs, b) ==
    IF b \in DOMAIN bs
    THEN [id |-> b, batch_name |-> bs[b].batch_name, record_type |-> bs[b].record_type]
    ELSE None

\* a lookup that never matches
get_batch_by_name_none(bs, name) == None

\* db.query(Batch).filter(Batch.batch_name == batch_name).first()
get_batch_by_name(bs, name) ==
    IF \E i \in DOMAIN bs : bs[i].batch_name = name
    THEN LET i == CHOOSE j \in DOMAIN bs : bs[j].batch_name = name
         IN  [id |-> i, batch_name |-> name, record_type |-> bs[i].record_type]
    ELSE None

get_all_batches(bs) ==
    {[id |-> i, batch_name |-> bs[i].batch_name, record_type |-> bs[i].record_type] : i \in DOMAIN bs}

\* db.query(Record).filter(Record.batch_id == batch_id)
get_records_by_batch(rs, b) == {r \in rs : r.batch_id = b}

\* the filter on the status alone
get_records_by_status_any_batch(rs, b, st) == {r \in rs : r.status = st}

\* ... .filter(Record.batch_id == batch_id, Record.status == status)
get_records_by_status(rs, b, st) == {r \in rs : r.batch_id = b /\ r.status = st}

\* a count of the distinct (record_id, status) pairs instead of the rows
CountAllDistinct(rs, b) ==
    Cardinality({<<r.record_id, r.status>> : r \in get_records_by_batch(rs, b)})

\* func.count(Record.id) over the rows of a batch
CountAll(rs, b) == Cardinality(get_records_by_batch(rs, b))

\* func.count(Record.id) over the rows of a batch with one status
CountStatus(rs, b, st) == Cardinality(get_records_by_status(rs, b, st))

\* only the identifiers that a single row of the batch and status has
IdSetUnrepeated(rs, b, st) ==
    {r.record_id : r \in {q \in get_records_by_status(rs, b, st) :
                              \A o \in get_records_by_status(rs, b, st) :
                                  o.record_id = q.record_id => o.id = q.id}}

\* set([r.record_id for r in db.query(Record.record_id).filter(...).all()])
IdSet(rs, b, st) == {r.record_id : r \in get_records_by_status(rs, b, st)}

\* [r.record_id for r in ....all()]: one list per order the rows may come in
IdLists(rs, b, st) ==
    {[i \in DOMAIN o |-> o[i].record_id] : o \in Orderings(get_records_by_status(rs, b, st))}

\* ------------------------------------------------------------------ engine
\* the difference taken the wrong way round
MissingSwapped(E, P) == P \ E

\* missing = expected_ids - processed_ids
Missing(E, P) == E \ P

\* every processed identifier taken as unexpected
UnexpectedAll(E, P) == P

\* unexpected = processed_ids - expected_ids
Unexpected(E, P) == P \ E

\* the rate cut to two decimals instead of rounded
ProcessingRateTruncated(E, P) ==
    IF Cardinality(E) > 0 THEN (10000 * Cardinality(E \cap P)) \div Cardinality(E) ELSE 0

\* the rate rounded up to two decimals instead of to the nearest
ProcessingRateCeiling(E, P) ==
    IF Cardinality(E) > 0
    THEN (10000 * Cardinality(E \cap P) + Cardinality(E) - 1) \div Cardinality(E)
    ELSE 0

\* round(processing_rate, 2) of find_missing_records
ProcessingRate(E, P) ==
    IF Cardinality(E) > 0 THEN Rate(Cardinality(E \cap P), Cardinality(E)) ELSE 0

MissingRecordsResult(batch, E, P) ==
    [kind |-> "MissingRecordsResult",
     batch_id |-> batch.id,
     batch_name |-> batch.batch_name,
     total_expected |-> Cardinality(E),
     total_processed |-> Cardinality(P),
     missing_count |-> Cardinality(Missing(E, P)),
     missing_records |-> sorted(SetToList(Missing(E, P))),
     processing_rate |-> ProcessingRate(E, P),
     unexpected_count |-> Cardinality(Unexpected(E, P)),
     unexpected_records |-> sorted(SetToList(Unexpected(E, P)))]

\* find_missing_records with all its statements run on one store
find_missing_records_on(bs, rs, b) ==
    MissingRecordsResult(get_batch_by_id(bs, b), IdSet(rs, b, EXPECTED), IdSet(rs, b, PROCESSED))

\* find_missing_records lines 118-155 on the lists el, pl the two queries
\* returned, with the two differences iterated by list() as ml and ul
find_missing_records(batch, el, pl, ml, ul) ==
    LET expected_ids == set(el)
        processed_ids == set(pl)
    IN  [kind |-> "MissingRecordsResult",
         batch_id |-> batch.id,
         batch_name |-> batch.batch_name,
         total_expected |-> Cardinality(expected_ids),
         total_processed |-> Cardinality(processed_ids),
         missing_count |-> Len(ml),
         missing_records |-> sorted(ml),
         processing_rate |-> ProcessingRate(expected_ids, processed_ids),
         unexpected_count |-> Len(ul),
         unexpected_records |-> sorted(ul)]

\* every result find_missing_records can return for batch b of the store rs,
\* over the orders the rows and the sets may be iterated in
find_missing_records_outcomes(batch, rs, b) ==
    UNION {UNION {UNION {{find_missing_records(batch, el, pl, ml, ul)
                             : ul \in Orderings(Unexpected(set(el), set(pl)))}
                         : ml \in Orderings(Missing(set(el), set(pl)))}
                  : pl \in IdLists(rs, b, PROCESSED)}
           : el \in IdLists(rs, b, EXPECTED)}

ProcessingStatusResult(batch, el, pl) ==
    [kind |-> "ProcessingStatusResult",
     batch_id |-> batch.id,
     batch_name |-> batch.batch_name,
     record_type |-> batch.record_type,
     expected_records |-> sorted(el),
     processed_records |-> sorted(pl),
     expected_count |-> Len(el),
     processed_count |-> Len(pl)]

\* the rate taken over the processed identifiers instead of the expected ones
StatisticsRateOverProcessed(E, P) ==
    IF Cardinality(P) > 0 THEN Rate(Cardinality(E \cap P), Cardinality(P)) ELSE 0

\* the rate of get_batch_statistics
StatisticsRate(E, P) ==
    IF Cardinality(E) > 0 THEN Rate(Cardinality(E \cap P), Cardinality(E)) ELSE 0

BatchStatistics(batch, total, ec, pcnt, E, P) ==
    [kind |-> "BatchStatistics",
     batch_id |-> batch.id,
     batch_name |-> batch.batch_name,
     total_records |-> total,
     expected_count |-> ec,
     processed_count |-> pcnt,
     missing_count |-> Cardinality(E \ P),
     processing_rate |-> StatisticsRate(E, P)]

\* get_processing_status with all its statements run on one store: the results
\* it can return, over the orders the rows may come in
get_processing_status_on(bs, rs, b) ==
    {ProcessingStatusResult(get_batch_by_id(bs, b), el, pl)
        : el \in IdLists(rs, b, EXPECTED), pl \in IdLists(rs, b, PROCESSED)}

\* get_batch_statistics with all its statements run on one store
get_batch_statistics_on(bs, rs, b) ==
    BatchStatistics(get_batch_by_id(bs, b), CountAll(rs, b),
                    CountStatus(rs, b, EXPECTED), CountStatus(rs, b, PROCESSED),
                    IdSet(rs, b, EXPECTED), IdSet(rs, b, PROCESSED))

\* ------------------------------------------------------------------ requests
NoLocal == [none |-> TRUE]
NoResp == [code |-> 0, body |-> None]
NoArgs == [op |-> "none", batch_id |-> 0, batch_name |-> "", record_type |-> "",
           status |-> "", records |-> <<>>]

RecordCreate == [record_id : RecordIds, status : RecordStatus]
Payloads == UNION {[1..n -> RecordCreate] : n \in 0..MaxBulk}

Req(op) == [NoArgs EXCEPT !.op = op]
ReqBatch(op, b) == [NoArgs EXCEPT !.op = op, !.batch_id = b]

InFlight(c) == pc[c] \notin {"idle", "done"}

\* rows that requests in flight may still insert
PendingRows ==
    SumOver([c \in Clients |->
                IF pc[c] \in {"create_record:insert", "bulk_upload_records:insert"}
                THEN Len(args[c].records) ELSE 0], Clients)

PendingBatches == Cardinality({c \in Clients : pc[c] = "create_batch:insert"})

\* requests received so far
Received == SumOver(started, Clients)

\* a client with no request in flight may send one
CanReceive(c) == ~InFlight(c) /\ Received < MaxRequests

\* the request a arrives from client c
Receive(c, a) ==
    /\ CanReceive(c)
    /\ started' = [started EXCEPT ![c] = @ + 1]
    /\ args' = [args EXCEPT ![c] = a]

\* a later statement of the request in flight
Continue(c, label) ==
    /\ pc[c] = label
    /\ UNCHANGED <<args, started>>

Goto(c, label, loc) ==
    /\ pc' = [pc EXCEPT ![c] = label]
    /\ local' = [local EXCEPT ![c] = loc]
    /\ resp' = [resp EXCEPT ![c] = NoResp]

\* the handler returns (or raises HTTPException): status code and body
Finish(c, code, body) ==
    /\ pc' = [pc EXCEPT ![c] = "done"]
    /\ local' = [local EXCEPT ![c] = NoLocal]
    /\ resp' = [resp EXCEPT ![c] = [code |-> code, body |-> body]]

Detail(text) == [detail |-> text]

\* ------------------------------------------------------------------ history
\* what a reconciliation of batch b would read from a store
Snapshot(rs, b) == <<IdSet(rs, b, EXPECTED), IdSet(rs, b, PROCESSED)>>

\* what the count queries of a statistics request of batch b would read from a store
Counts(rs, b) == <<CountAll(rs, b), CountStatus(rs, b, EXPECTED), CountStatus(rs, b, PROCESSED)>>

\* the requests whose reads are followed
Traced == {"analyze_missing_records", "get_batch_statistics"}

SnapshotFor(op, rs, b) ==
    IF op = "analyze_missing_records" THEN Snapshot(rs, b) ELSE Counts(rs, b)

\* the stores a reconciliation or statistics request has lived through, from
\* its first statement to its last
Observe(c) ==
    snaps' = [d \in Clients |->
        IF d = c /\ started'[d] # started[d]
        THEN IF args'[d].op \in Traced
             THEN {SnapshotFor(args'[d].op, records', args'[d].batch_id)}
             ELSE {}
        ELSE IF InFlight(d) /\ args[d].op \in Traced
             THEN snaps[d] \cup {SnapshotFor(args[d].op, records', args[d].batch_id)}
             ELSE snaps[d]]

\* ------------------------------------------------------------------ batches
\* POST /batches, line 27: the name check
create_batch_check(c) ==
    CanReceive(c) /\
    \E name \in BatchNames, rt \in TypeInputs :
        /\ nextBatchId + PendingBatches <= MaxBatches
        /\ Receive(c, [NoArgs EXCEPT !.op = "create_batch", !.batch_name = name,
                                     !.record_type = rt])
        /\ IF get_batch_by_name(batches, name) # None
           THEN Finish(c, 400, Detail("already exists"))
           ELSE Goto(c, "create_batch:insert", NoLocal)
        /\ UNCHANGED store
        /\ Observe(c)

\* BatchService.create_batch: db.add(batch); db.commit()
create_batch_insert(c) ==
    /\ Continue(c, "create_batch:insert")
    /\ IF UniqueNameOk(batches, args[c].batch_name)
       THEN /\ batches' = batches @@ (AutoIncrement(nextBatchId) :>
                  [batch_name |-> args[c].batch_name, record_type |-> args[c].record_type])
            /\ nextBatchId' = nextBatchId + 1
            /\ Goto(c, "create_batch:refresh", [id |-> AutoIncrement(nextBatchId)])
       ELSE /\ Finish(c, 400, Detail("Failed to create batch"))
            /\ UNCHANGED <<batches, nextBatchId>>
    /\ UNCHANGED <<records, nextRecordId>>
    /\ Observe(c)

\* db.refresh(batch); return batch
create_batch_refresh(c) ==
    /\ Continue(c, "create_batch:refresh")
    /\ IF get_batch_by_id(batches, local[c].id) # None
       THEN Finish(c, 201, get_batch_by_id(batches, local[c].id))
       ELSE Finish(c, 400, Detail("Failed to create batch"))
    /\ UNCHANGED store
    /\ Observe(c)

\* GET /batches
get_all_batches_query(c) ==
    /\ Receive(c, Req("get_all_batches"))
    /\ Finish(c, 200, [batches |-> get_all_batches(batches)])
    /\ UNCHANGED store
    /\ Observe(c)

\* GET /batches/{batch_id}
get_batch_query(c) ==
    CanReceive(c) /\
    \E b \in BatchArgs :
        /\ Receive(c, ReqBatch("get_batch", b))
        /\ IF get_batch_by_id(batches, b) = None
           THEN Finish(c, 404, Detail("not found"))
           ELSE Finish(c, 200, get_batch_by_id(batches, b))
        /\ UNCHANGED store
        /\ Observe(c)

\* DELETE /batches/{batch_id}; BatchService.delete_batch line 45
delete_batch_select(c) ==
    CanReceive(c) /\
    \E b \in BatchArgs :
        /\ Receive(c, ReqBatch("delete_batch", b))
        /\ IF get_batch_by_id(batches, b) = None
           THEN Finish(c, 404, Detail("not found"))
           ELSE Goto(c, "delete_batch:cascade", NoLocal)
        /\ UNCHANGED store
        /\ Observe(c)

\* db.delete(batch): the delete cascade loads batch.records
delete_batch_cascade(c) ==
    /\ Continue(c, "delete_batch:cascade")
    /\ Goto(c, "delete_batch:commit",
            [children |-> {r.id : r \in get_records_by_batch(records, args[c].batch_id)}])
    /\ UNCHANGED store
    /\ Observe(c)

\* the rows left after the flush deleted the loaded children
AfterCascade(rs, children) == {r \in rs : r.id \notin children}

\* the batch row deleted, its records left behind
delete_batch_commit_no_cascade(c) ==
    /\ Continue(c, "delete_batch:commit")
    /\ batches' = [i \in DOMAIN batches \ {args[c].batch_id} |-> batches[i]]
    /\ Finish(c, 200, [message |-> "deleted", batch_id |-> args[c].batch_id])
    /\ UNCHANGED <<records, nextBatchId, nextRecordId>>
    /\ Observe(c)

\* db.commit(): DELETE the loaded children, DELETE the batch row
delete_batch_commit(c) ==
    /\ Continue(c, "delete_batch:commit")
    /\ LET b == args[c].batch_id
           rest == AfterCascade(records, local[c].children)
       IN  IF NoChildren(rest, b)
           THEN /\ records' = rest
                /\ batches' = [i \in DOMAIN batches \ {b} |-> batches[i]]
                /\ Finish(c, 200, [message |-> "deleted", batch_id |-> b])
           ELSE \* IntegrityError: the transaction rolls back, the exception is not caught
                /\ Finish(c, 500, Detail("Internal Server Error"))
                /\ UNCHANGED <<batches, records>>
    /\ UNCHANGED <<nextBatchId, nextRecordId>>
    /\ Observe(c)

\* ------------------------------------------------------------------ records
NewRow(id, b, rc) == [id |-> id, record_id |-> rc.record_id, batch_id |-> b, status |-> rc.status]

\* POST /records?batch_id=, line 101: verify batch exists
create_record_check(c) ==
    CanReceive(c) /\
    \E b \in BatchArgs, rc \in RecordCreate :
        /\ (nextRecordId - 1) + PendingRows + 1 <= MaxRows
        /\ Receive(c, [NoArgs EXCEPT !.op = "create_record", !.batch_id = b, !.records = <<rc>>])
        /\ IF get_batch_by_id(batches, b) = None
           THEN Finish(c, 404, Detail("not found"))
           ELSE Goto(c, "create_record:insert", NoLocal)
        /\ UNCHANGED store
        /\ Observe(c)

\* an upsert: a stored row of the batch with the record_id takes the new status
create_record_insert_upsert(c) ==
    /\ Continue(c, "create_record:insert")
    /\ LET b == args[c].batch_id
           rc == args[c].records[1]
           hit == {r \in records : r.batch_id = b /\ r.record_id = rc.record_id}
       IN  IF hit # {}
           THEN /\ records' = (records \ hit) \cup {[r EXCEPT !.status = rc.status] : r \in hit}
                /\ nextRecordId' = nextRecordId
                /\ Goto(c, "create_record:refresh", [id |-> (CHOOSE r \in hit : TRUE).id])
           ELSE /\ records' = records \cup {NewRow(AutoIncrement(nextRecordId), b, rc)}
                /\ nextRecordId' = nextRecordId + 1
                /\ Goto(c, "create_record:refresh", [id |-> AutoIncrement(nextRecordId)])
    /\ UNCHANGED <<batches, nextBatchId>>
    /\ Observe(c)

\* RecordService.create_record: db.add(record); db.commit()
create_record_insert(c) ==
    /\ Continue(c, "create_record:insert")
    /\ IF ForeignKeyOk(batches, args[c].batch_id)
       THEN /\ records' = records \cup {NewRow(AutoIncrement(nextRecordId), args[c].batch_id,
                                                args[c].records[1])}
            /\ nextRecordId' = nextRecordId + 1
            /\ Goto(c, "create_record:refresh", [id |-> AutoIncrement(nextRecordId)])
       ELSE /\ Finish(c, 400, Detail("Failed to create record"))
            /\ UNCHANGED <<records, nextRecordId>>
    /\ UNCHANGED <<batches, nextBatchId>>
    /\ Observe(c)

\* db.refresh(record); return record
create_record_refresh(c) ==
    /\ Continue(c, "create_record:refresh")
    /\ IF \E r \in records : r.id = local[c].id
       THEN Finish(c, 201, CHOOSE r \in records : r.id = local[c].id)
       ELSE Finish(c, 400, Detail("Failed to create record"))
    /\ UNCHANGED store
    /\ Observe(c)

\* POST /records/bulk, line 127: verify batch exists
bulk_upload_records_check(c) ==
    CanReceive(c) /\
    \E b \in BatchArgs, rl \in Payloads :
        /\ (nextRecordId - 1) + PendingRows + Len(rl) <= MaxRows
        /\ Receive(c, [NoArgs EXCEPT !.op = "bulk_upload_records", !.batch_id = b, !.records = rl])
        /\ IF get_batch_by_id(batches, b) = None
           THEN Finish(c, 404, Detail("not found"))
           ELSE Goto(c, "bulk_upload_records:insert", NoLocal)
        /\ UNCHANGED store
        /\ Observe(c)

\* one row per distinct record of the request
BulkRowsDistinct(first, b, rl) ==
    {NewRow(first + i - 1, b, rl[i]) : i \in {j \in DOMAIN rl : \A k \in 1..(j - 1) : rl[k] # rl[j]}}

\* the rows db.add_all(records) inserts, ids in list order
BulkRows(first, b, rl) == {NewRow(first + i - 1, b, rl[i]) : i \in DOMAIN rl}

\* the rows committed one by one, and the commits after the first lost
bulk_upload_records_insert_first_only(c) ==
    /\ Continue(c, "bulk_upload_records:insert")
    /\ LET rl == args[c].records
           b == args[c].batch_id
       IN  /\ records' = records \cup {NewRow(nextRecordId + i - 1, b, rl[i]) : i \in DOMAIN rl \cap {1}}
           /\ nextRecordId' = nextRecordId + Len(rl)
           /\ Finish(c, 400, Detail("Failed to bulk upload records"))
    /\ UNCHANGED <<batches, nextBatchId>>
    /\ Observe(c)

\* RecordService.bulk_create_records: db.add_all(records); db.commit()
bulk_upload_records_insert(c) ==
    /\ Continue(c, "bulk_upload_records:insert")
    /\ LET rl == args[c].records
           b == args[c].batch_id
       IN  IF rl = <<>> \/ ForeignKeyOk(batches, b)
           THEN /\ records' = records \cup BulkRows(AutoIncrement(nextRecordId), b, rl)
                /\ nextRecordId' = nextRecordId + Len(rl)
                /\ Finish(c, 201, [message |-> "uploaded", count |-> Len(rl), batch_id |-> b])
           ELSE /\ Finish(c, 400, Detail("Failed to bulk upload records"))
                /\ UNCHANGED <<records, nextRecordId>>
    /\ UNCHANGED <<batches, nextBatchId>>
    /\ Observe(c)

\* GET /records/batch/{batch_id}, line 156
get_records_by_batch_check(c) ==
    CanReceive(c) /\
    \E b \in BatchArgs :
        /\ Receive(c, ReqBatch("get_records_by_batch", b))
        /\ IF get_batch_by_id(batches, b) = None
           THEN Finish(c, 404, Detail("not found"))
           ELSE Goto(c, "get_records_by_batch:query", NoLocal)
        /\ UNCHANGED store
        /\ Observe(c)

\* line 163
get_records_by_batch_query(c) ==
    /\ Continue(c, "get_records_by_batch:query")
    /\ Finish(c, 200, [records |-> get_records_by_batch(records, args[c].batch_id)])
    /\ UNCHANGED store
    /\ Observe(c)

\* GET /records/batch/{batch_id}/status/{status}, line 177
get_records_by_status_check(c) ==
    CanReceive(c) /\
    \E b \in BatchArgs, st \in RecordStatus :
        /\ Receive(c, [NoArgs EXCEPT !.op = "get_records_by_status", !.batch_id = b, !.status = st])
        /\ IF get_batch_by_id(batches, b) = None
           THEN Finish(c, 404, Detail("not found"))
           ELSE Goto(c, "get_records_by_status:query", NoLocal)
        /\ UNCHANGED store
        /\ Observe(c)

\* line 184
get_records_by_status_query(c) ==
    /\ Continue(c, "get_records_by_status:query")
    /\ Finish(c, 200, [records |-> get_records_by_status(records, args[c].batch_id, args[c].status)])
    /\ UNCHANGED store
    /\ Observe(c)

\* the handler without its batch check
clear_batch_records_unchecked(c) ==
    CanReceive(c) /\
    \E b \in BatchArgs :
        /\ Receive(c, ReqBatch("clear_batch_records", b))
        /\ Goto(c, "clear_batch_records:delete", NoLocal)
        /\ UNCHANGED store
        /\ Observe(c)

\* DELETE /records/batch/{batch_id}, line 275
clear_batch_records_check(c) ==
    CanReceive(c) /\
    \E b \in BatchArgs :
        /\ Receive(c, ReqBatch("clear_batch_records", b))
        /\ IF get_batch_by_id(batches, b) = None
           THEN Finish(c, 404, Detail("not found"))
           ELSE Goto(c, "clear_batch_records:delete", NoLocal)
        /\ UNCHANGED store
        /\ Observe(c)

\* the DELETE without its batch filter
clear_all_records_every_batch(c) ==
    /\ Continue(c, "clear_batch_records:delete")
    /\ records' = {}
    /\ Finish(c, 200, [message |-> "cleared", deleted_count |-> CountAll(records, args[c].batch_id),
                       batch_id |-> args[c].batch_id])
    /\ UNCHANGED <<batches, nextBatchId, nextRecordId>>
    /\ Observe(c)

\* RecordService.clear_all_records: query(Record).filter(...).delete(); commit()
clear_all_records(c) ==
    /\ Continue(c, "clear_batch_records:delete")
    /\ LET b == args[c].batch_id
       IN  /\ records' = records \ get_records_by_batch(records, b)
           /\ Finish(c, 200, [message |-> "cleared", deleted_count |-> CountAll(records, b),
                              batch_id |-> b])
    /\ UNCHANGED <<batches, nextBatchId, nextRecordId>>
    /\ Observe(c)

\* ------------------------------------------------------------------ analysis
\* ValueError caught by the generic handler: 500 instead of 404
analyze_missing_records_batch_500(c) ==
    CanReceive(c) /\
    \E b \in BatchArgs :
        /\ Receive(c, ReqBatch("analyze_missing_records", b))
        /\ IF get_batch_by_id(Visible(batches), b) = None
           THEN Finish(c, 500, Detail("Failed to analyze missing records"))
           ELSE Goto(c, "analyze_missing_records:expected", [batch |-> get_batch_by_id(Visible(batches), b)])
        /\ UNCHANGED store
        /\ Observe(c)

\* GET /analysis/missing/{batch_id}; find_missing_records lines 109-111
\* (ValueError becomes 404 in analyze_missing_records)
analyze_missing_records_batch(c) ==
    CanReceive(c) /\
    \E b \in BatchArgs :
        /\ Receive(c, ReqBatch("analyze_missing_records", b))
        /\ IF get_batch_by_id(Visible(batches), b) = None
           THEN Finish(c, 404, Detail("not found"))
           ELSE Goto(c, "analyze_missing_records:expected", [batch |-> get_batch_by_id(Visible(batches), b)])
        /\ UNCHANGED store
        /\ Observe(c)

\* lines 114-118: expected_ids
analyze_missing_records_expected(c) ==
    /\ Continue(c, "analyze_missing_records:expected")
    /\ Goto(c, "analyze_missing_records:processed",
            [batch |-> local[c].batch,
             expected_ids |-> IdSet(Visible(records), args[c].batch_id, EXPECTED)])
    /\ UNCHANGED store
    /\ Observe(c)

\* the second query filtering on EXPECTED again
analyze_missing_records_processed_same_status(c) ==
    /\ Continue(c, "analyze_missing_records:processed")
    /\ Finish(c, 200, MissingRecordsResult(local[c].batch, local[c].expected_ids,
                                           IdSet(Visible(records), args[c].batch_id, EXPECTED)))
    /\ UNCHANGED store
    /\ Observe(c)

\* lines 121-155: processed_ids, the set differences and the result
analyze_missing_records_processed(c) ==
    /\ Continue(c, "analyze_missing_records:processed")
    /\ Finish(c, 200, MissingRecordsResult(local[c].batch, local[c].expected_ids,
                                           IdSet(Visible(records), args[c].batch_id, PROCESSED)))
    /\ UNCHANGED store
    /\ Observe(c)

\* GET /analysis/status/{batch_id}; get_processing_status lines 163-165
get_processing_status_batch(c) ==
    CanReceive(c) /\
    \E b \in BatchArgs :
        /\ Receive(c, ReqBatch("get_processing_status", b))
        /\ IF get_batch_by_id(Visible(batches), b) = None
           THEN Finish(c, 404, Detail("not found"))
           ELSE Goto(c, "get_processing_status:expected", [batch |-> get_batch_by_id(Visible(batches), b)])
        /\ UNCHANGED store
        /\ Observe(c)

\* lines 168-172: expected_ids, a list
get_processing_status_expected(c) ==
    /\ Continue(c, "get_processing_status:expected")
    /\ \E el \in IdLists(Visible(records), args[c].batch_id, EXPECTED) :
           Goto(c, "get_processing_status:processed",
                [batch |-> local[c].batch, expected_ids |-> el])
    /\ UNCHANGED store
    /\ Observe(c)

\* lines 175-189: processed_ids and the result
get_processing_status_processed(c) ==
    /\ Continue(c, "get_processing_status:processed")
    /\ \E pl \in IdLists(Visible(records), args[c].batch_id, PROCESSED) :
           Finish(c, 200, ProcessingStatusResult(local[c].batch, local[c].expected_ids, pl))
    /\ UNCHANGED store
    /\ Observe(c)

\* GET /analysis/statistics/{batch_id}; get_batch_statistics lines 194-196
get_batch_statistics_batch(c) ==
    CanReceive(c) /\
    \E b \in BatchArgs :
        /\ Receive(c, ReqBatch("get_batch_statistics", b))
        /\ IF get_batch_by_id(Visible(batches), b) = None
           THEN Finish(c, 404, Detail("not found"))
           ELSE Goto(c, "get_batch_statistics:total", [batch |-> get_batch_by_id(Visible(batches), b)])
        /\ UNCHANGED store
        /\ Observe(c)

\* lines 199-201: total_records
get_batch_statistics_total(c) ==
    /\ Continue(c, "get_batch_statistics:total")
    /\ Goto(c, "get_batch_statistics:expected_count",
            [batch |-> local[c].batch,
             total_records |-> CountAll(Visible(records), args[c].batch_id)])
    /\ UNCHANGED store
    /\ Observe(c)

\* the second count without its status filter
get_batch_statistics_expected_count_unfiltered(c) ==
    /\ Continue(c, "get_batch_statistics:expected_count")
    /\ Goto(c, "get_batch_statistics:processed_count",
            [batch |-> local[c].batch,
             total_records |-> local[c].total_records,
             expected_count |-> CountAll(Visible(records), args[c].batch_id)])
    /\ UNCHANGED store
    /\ Observe(c)

\* lines 203-206: expected_count
get_batch_statistics_expected_count(c) ==
    /\ Continue(c, "get_batch_statistics:expected_count")
    /\ Goto(c, "get_batch_statistics:processed_count",
            [batch |-> local[c].batch,
             total_records |-> local[c].total_records,
             expected_count |-> CountStatus(Visible(records), args[c].batch_id, EXPECTED)])
    /\ UNCHANGED store
    /\ Observe(c)

\* lines 208-211: processed_count
get_batch_statistics_processed_count(c) ==
    /\ Continue(c, "get_batch_statistics:processed_count")
    /\ Goto(c, "get_batch_statistics:expected",
            [batch |-> local[c].batch,
             total_records |-> local[c].total_records,
             expected_count |-> local[c].expected_count,
             processed_count |-> CountStatus(Visible(records), args[c].batch_id, PROCESSED)])
    /\ UNCHANGED store
    /\ Observe(c)

\* lines 214-218: expected_ids
get_batch_statistics_expected(c) ==
    /\ Continue(c, "get_batch_statistics:expected")
    /\ Goto(c, "get_batch_statistics:processed",
            [batch |-> local[c].batch,
             total_records |-> local[c].total_records,
             expected_count |-> local[c].expected_count,
             processed_count |-> local[c].processed_count,
             expected_ids |-> IdSet(Visible(records), args[c].batch_id, EXPECTED)])
    /\ UNCHANGED store
    /\ Observe(c)

\* the last query deleting the rows it matched instead of reading them
get_batch_statistics_processed_deleting(c) ==
    /\ Continue(c, "get_batch_statistics:processed")
    /\ Finish(c, 200, BatchStatistics(local[c].batch, local[c].total_records,
                                      local[c].expected_count, local[c].processed_count,
                                      local[c].expected_ids,
                                      IdSet(Visible(records), args[c].batch_id, PROCESSED)))
    /\ records' = records \ get_records_by_status(records, args[c].batch_id, PROCESSED)
    /\ UNCHANGED <<batches, nextBatchId, nextRecordId>>
    /\ Observe(c)

\* lines 220-244: processed_ids, missing count, rate and the result
get_batch_statistics_processed(c) ==
    /\ Continue(c, "get_batch_statistics:processed")
    /\ Finish(c, 200, BatchStatistics(local[c].batch, local[c].total_records,
                                      local[c].expected_count, local[c].processed_count,
                                      local[c].expected_ids,
                                      IdSet(Visible(records), args[c].batch_id, PROCESSED)))
    /\ UNCHANGED store
    /\ Observe(c)

\* ------------------------------------------------------------------ system
\* The database outlives the process (main.py only creates missing tables), so
\* the service starts on any store earlier runs can have left: batches 1..nb
\* with distinct names, and rows that reference them.  Row ids follow a fixed
\* order of the row contents.
StoreRow(id, k, R) ==
    [id |-> id,
     record_id |-> (k % R) + 1,
     batch_id |-> (k \div (2 * R)) + 1,
     status |-> IF (k \div R) % 2 = 0 THEN EXPECTED ELSE PROCESSED]

RECURSIVE RowSets(_, _, _, _, _)
\* the sets of n rows, ids from id on, whose kinds lo..hi do not decrease
RowSets(n, id, lo, hi, R) ==
    IF n = 0 THEN {{}}
    ELSE UNION {{{StoreRow(id, k, R)} \cup rest : rest \in RowSets(n - 1, id + 1, k, hi, R)}
                : k \in lo..hi}

\* names of the batches already stored: pairwise different (models.py:29)
StoreNames == <<"a", "b", "c", "d">>

StoreBatch(i) ==
    [batch_name |-> StoreNames[i],
     record_type |-> IF i % 2 = 1 THEN "order" ELSE "payment"]

Populated(minBatches, maxRows, R) ==
    \E nb \in minBatches..(IF InitBatches < Len(StoreNames) THEN InitBatches ELSE Len(StoreNames)) :
        /\ batches = [i \in 1..nb |-> StoreBatch(i)]
        /\ nextBatchId = nb + 1
        /\ \E n \in 0..maxRows :
            /\ records \in RowSets(n, 1, 0, 2 * R * nb - 1, R)
            /\ nextRecordId = n + 1

Idle(budget) ==
    /\ pc = [c \in Clients |-> "idle"]
    /\ args = [c \in Clients |-> NoArgs]
    /\ local = [c \in Clients |-> NoLocal]
    /\ resp = [c \in Clients |-> NoResp]
    /\ started = [c \in Clients |-> IF c = 1 THEN MaxRequests - budget ELSE 0]
    /\ snaps = [c \in Clients |-> {}]

Init == Populated(0, InitRows, MaxRecordId) /\ Idle(MaxRequests)

BatchStep(c) ==
    \/ create_batch_check(c)
    \/ create_batch_insert(c)
    \/ create_batch_refresh(c)
    \/ get_all_batches_query(c)
    \/ get_batch_query(c)
    \/ delete_batch_select(c)
    \/ delete_batch_cascade(c)
    \/ delete_batch_commit(c)

RecordStep(c) ==
    \/ create_record_check(c)
    \/ create_record_insert(c)
    \/ create_record_refresh(c)
    \/ bulk_upload_records_check(c)
    \/ bulk_upload_records_insert(c)
    \/ get_records_by_batch_check(c)
    \/ get_records_by_batch_query(c)
    \/ get_records_by_status_check(c)
    \/ get_records_by_status_query(c)
    \/ clear_batch_records_check(c)
    \/ clear_all_records(c)

AnalysisStep(c) ==
    \/ analyze_missing_records_batch(c)
    \/ analyze_missing_records_expected(c)
    \/ analyze_missing_records_processed(c)
    \/ get_processing_status_batch(c)
    \/ get_processing_status_expected(c)
    \/ get_processing_status_processed(c)
    \/ get_batch_statistics_batch(c)
    \/ get_batch_statistics_total(c)
    \/ get_batch_statistics_expected_count(c)
    \/ get_batch_statistics_processed_count(c)
    \/ get_batch_statistics_expected(c)
    \/ get_batch_statistics_processed(c)

Next == \E c \in Clients : BatchStep(c) \/ RecordStep(c) \/ AnalysisStep(c)

Spec == Init /\ [][Next]_vars

\* ------------------------------------------------------------------ engine alone
\* One analysis request at a time, by one client, against a larger store.
EngineInit == Populated(1, EngineRows, EngineRecordId) /\ Idle(1)

EngineNext == \E c \in {1} : AnalysisStep(c)

EngineSpec == EngineInit /\ [][EngineNext]_vars

\* ------------------------------------------------------------------ result alone
\* The result computation of find_missing_records (lines 127-155) on id sets
\* of given sizes, small and large: n expected identifiers of which m are not
\* processed, and u processed identifiers that are not expected.
SmallExpected == 3      \* sizes 0..SmallExpected
LargeExpected == 20001  \* and (LargeExpected - LargeSpread)..LargeExpected
LargeSpread == 12
MaxMissing == 3         \* at most this many expected identifiers not processed
MaxUnexpected == 1      \* at most this many processed identifiers not expected

ExpectedSizes == (0..SmallExpected) \cup ((LargeExpected - LargeSpread)..LargeExpected)

\* the request of client 1 has run both queries
ResultInit ==
    /\ batches = [i \in 1..1 |-> StoreBatch(i)]
    /\ nextBatchId = 2
    /\ records = {}
    /\ nextRecordId = 1
    /\ pc = [c \in Clients |-> IF c = 1 THEN "analyze_missing_records:result" ELSE "idle"]
    /\ args = [c \in Clients |-> IF c = 1 THEN ReqBatch("analyze_missing_records", 1) ELSE NoArgs]
    /\ \E n \in ExpectedSizes, m \in 0..MaxMissing, u \in 0..MaxUnexpected :
           /\ m <= n
           /\ local = [c \in Clients |->
                         IF c = 1
                         THEN [batch |-> get_batch_by_id(batches, 1),
                               expected_ids |-> 1..n,
                               processed_ids |-> (1..(n - m)) \cup ((n + 1)..(n + u))]
                         ELSE NoLocal]
    /\ resp = [c \in Clients |-> NoResp]
    /\ started = [c \in Clients |-> IF c = 1 THEN 1 ELSE 0]
    /\ snaps = [c \in Clients |-> {}]

\* lines 127-155: the set differences, the rate and the result
analyze_missing_records_result(c) ==
    /\ Continue(c, "analyze_missing_records:result")
    /\ Finish(c, 200, MissingRecordsResult(local[c].batch, local[c].expected_ids,
                                           local[c].processed_ids))
    /\ UNCHANGED store
    /\ UNCHANGED snaps

ResultNext == \E c \in {1} : analyze_missing_records_result(c)

ResultSpec == ResultInit /\ [][ResultNext]_vars

\* ------------------------------------------------------------------ properties
AnalysisOps == {"analyze_missing_records", "get_processing_status", "get_batch_statistics"}
RecordOps == {"create_record", "bulk_upload_records", "get_records_by_batch",
              "get_records_by_status", "clear_batch_records"}

\* client c holds the response of a finished request op
Done(c, op) == pc[c] = "done" /\ args[c].op = op

\* client c received a request in this step
Sent(c) == started'[c] # started[c]

Abs(n) == IF n < 0 THEN -n ELSE n
Elems(s) == {s[i] : i \in DOMAIN s}
Ascending(s) == \A i \in 1..(Len(s) - 1) : s[i] < s[i + 1]

\* the store holds a row of batch b with this status and record_id
HasRow(b, st, x) == \E r \in records : r.batch_id = b /\ r.status = st /\ r.record_id = x
StoredIds == {r.record_id : r \in records}
ExpectedOnly(b) == {x \in StoredIds : HasRow(b, EXPECTED, x) /\ ~HasRow(b, PROCESSED, x)}
ProcessedOnly(b) == {x \in StoredIds : HasRow(b, PROCESSED, x) /\ ~HasRow(b, EXPECTED, x)}
ExpectedIn(b) == {x \in StoredIds : HasRow(b, EXPECTED, x)}
ExpectedAndProcessed(b) == {x \in StoredIds : HasRow(b, EXPECTED, x) /\ HasRow(b, PROCESSED, x)}

\* C1: run alone on an existing batch, find_missing_records returns 200 with
\* missing_records strictly ascending and holding exactly the record_ids that
\* some EXPECTED row and no PROCESSED row of the batch has, and
\* unexpected_records likewise for PROCESSED without EXPECTED.
C1_SortedSetDifference ==
    \A c \in Clients :
        (Done(c, "analyze_missing_records") /\ args[c].batch_id \in DOMAIN batches) =>
            /\ resp[c].code = 200
            /\ Ascending(resp[c].body.missing_records)
            /\ Ascending(resp[c].body.unexpected_records)
            /\ Elems(resp[c].body.missing_records) = ExpectedOnly(args[c].batch_id)
            /\ Elems(resp[c].body.unexpected_records) = ProcessedOnly(args[c].batch_id)

\* two missing and one unexpected identifier, from a batch with a duplicated row
C1_Witness ==
    \E c \in Clients :
        /\ Done(c, "analyze_missing_records")
        /\ resp[c].code = 200
        /\ Len(resp[c].body.missing_records) = 2
        /\ Len(resp[c].body.unexpected_records) = 1
        /\ \E r1, r2 \in records :
            /\ r1.id # r2.id
            /\ r1.batch_id = args[c].batch_id /\ r2.batch_id = args[c].batch_id
            /\ r1.record_id = r2.record_id /\ r1.status = r2.status

\* C2: run alone on an existing batch, find_missing_records returns as
\* processing_rate the multiple of 0.01 nearest to 100 * |expected and
\* processed| / |expected| when the batch has an EXPECTED identifier, and 0.0
\* when it has none; for a batch without rows both lists are empty too.
C2_ProcessingRate ==
    \A c \in Clients :
        (Done(c, "analyze_missing_records") /\ args[c].batch_id \in DOMAIN batches) =>
            LET b == args[c].batch_id
                t == Cardinality(ExpectedIn(b))
                n == Cardinality(ExpectedAndProcessed(b))
                rate == resp[c].body.processing_rate
            IN  /\ t > 0 => 2 * Abs(rate * t - 10000 * n) <= t
                /\ t = 0 => rate = 0
                /\ (\A r \in records : r.batch_id # b) =>
                       /\ resp[c].body.missing_records = <<>>
                       /\ resp[c].body.unexpected_records = <<>>
                       /\ rate = 0

\* two of three expected identifiers processed: 66.67
C2_Witness ==
    \E c \in Clients :
        /\ Done(c, "analyze_missing_records")
        /\ resp[c].code = 200
        /\ resp[c].body.total_expected = 3
        /\ resp[c].body.processing_rate = 6667

NotFound == [code |-> 404, body |-> Detail("not found")]
NameStored(name) == \E i \in DOMAIN batches : batches[i].batch_name = name

\* C3: an analysis request for a batch id that no stored batch has ends in
\* its first statement with 404 and a plain detail; no analysis request reads
\* records without the batch it loaded, and none ends other than 200 or 404.
C3_NotFoundFirst ==
    /\ [](\A c \in Clients : (InFlight(c) /\ args[c].op \in AnalysisOps) =>
              (local[c].batch # None /\ local[c].batch.id = args[c].batch_id))
    /\ [](\A c \in Clients : (pc[c] = "done" /\ args[c].op \in AnalysisOps) =>
              \/ resp[c] = NotFound
              \/ resp[c].code = 200 /\ resp[c].body.batch_id = args[c].batch_id)
    /\ [][\A c \in Clients :
              (Sent(c) /\ args'[c].op \in AnalysisOps /\ args'[c].batch_id \notin DOMAIN batches)
                  => (pc'[c] = "done" /\ resp'[c] = NotFound)]_vars

\* each of the three views answered 404 for a missing batch
C3_Witness ==
    \E c, d \in Clients :
        /\ Done(c, "analyze_missing_records") /\ resp[c] = NotFound
        /\ Done(d, "get_batch_statistics") /\ resp[d] = NotFound
        /\ args[c].batch_id \notin DOMAIN batches
        /\ args[d].batch_id \notin DOMAIN batches

\* client c runs a statement of an analysis request in this step
AnalysisActs(c) ==
    \/ Sent(c) /\ args'[c].op \in AnalysisOps
    \/ InFlight(c) /\ args[c].op \in AnalysisOps /\ pc'[c] # pc[c]

\* C4: no statement of find_missing_records, get_processing_status or
\* get_batch_statistics changes the stored batches or records, whether the
\* batch exists or not.
C4_AnalysisReadOnly ==
    [][\A c \in Clients : AnalysisActs(c) => (batches' = batches /\ records' = records)]_vars

\* statistics and a reconciliation answered over a batch with rows, which are still there
C4_Witness ==
    \E c, d \in Clients :
        /\ Done(c, "get_batch_statistics") /\ resp[c].code = 200
        /\ Done(d, "analyze_missing_records") /\ resp[d].code = 200
        /\ resp[c].body.total_records = CountAll(records, args[c].batch_id)
        /\ resp[c].body.total_records >= 2

\* the result of a reconciliation over expected set E and processed set P
ResultOver(body, E, P) ==
    body = MissingRecordsResult([id |-> body.batch_id, batch_name |-> body.batch_name], E, P)

\* C5 (as claimed): a reconciliation result equals the reconciliation of the
\* store as it was at one instant during the request.
C5_ConsistentSnapshot ==
    \A c \in Clients :
        (Done(c, "analyze_missing_records") /\ resp[c].code = 200) =>
            \E s \in snaps[c] : ResultOver(resp[c].body, s[1], s[2])

\* C5 (amended): the expected set of a reconciliation result is the batch's
\* expected set at one instant during the request and its processed set the
\* batch's processed set at one instant during the request.
C5_EachReadCurrent ==
    \A c \in Clients :
        (Done(c, "analyze_missing_records") /\ resp[c].code = 200) =>
            \E s1, s2 \in snaps[c] : ResultOver(resp[c].body, s1[1], s2[2])

\* a result that no single instant of the request yields
C5_Witness ==
    \E c \in Clients :
        /\ Done(c, "analyze_missing_records") /\ resp[c].code = 200
        /\ Cardinality(snaps[c]) >= 2
        /\ ~ \E s \in snaps[c] : ResultOver(resp[c].body, s[1], s[2])

\* C6: no two stored batches have the same batch_name.
C6_UniqueNames ==
    \A i, j \in DOMAIN batches : batches[i].batch_name = batches[j].batch_name => i = j

\* two requests for one name both passed the name check; the INSERT of one failed
C6_Witness ==
    \E c, d \in Clients :
        /\ Done(c, "create_batch") /\ resp[c].code = 201
        /\ Done(d, "create_batch") /\ resp[d] = [code |-> 400, body |-> Detail("Failed to create batch")]
        /\ args[c].batch_name = args[d].batch_name
        /\ resp[c].body.id \in DOMAIN batches

\* C7: a create-batch request that arrives while its name is stored ends there
\* with 400, and an INSERT that finds the name stored ends with 400; neither
\* changes the store.
C7_DuplicateRejected ==
    [][\A c \in Clients :
        /\ (Sent(c) /\ args'[c].op = "create_batch" /\ NameStored(args'[c].batch_name))
              => (pc'[c] = "done" /\ resp'[c].code = 400 /\ UNCHANGED store)
        /\ (pc[c] = "create_batch:insert" /\ pc'[c] # pc[c] /\ NameStored(args[c].batch_name))
              => (pc'[c] = "done" /\ resp'[c].code = 400 /\ UNCHANGED store)]_vars

\* a duplicate turned away by the name check, the first batch still stored
C7_Witness ==
    \E c \in Clients :
        /\ Done(c, "create_batch")
        /\ resp[c] = [code |-> 400, body |-> Detail("already exists")]
        /\ NameStored(args[c].batch_name)

C10_RecordOpsCheckBatch ==
    [][\A c \in Clients :
        (Sent(c) /\ args'[c].op \in RecordOps /\ args'[c].batch_id \notin DOMAIN batches)
            => (pc'[c] = "done" /\ resp'[c] = NotFound /\ UNCHANGED store)]_vars

\* a clear and a bulk upload for a missing batch answered 404, other rows untouched
C10_Witness ==
    \E c, d \in Clients :
        /\ Done(c, "clear_batch_records") /\ resp[c] = NotFound
        /\ Done(d, "bulk_upload_records") /\ resp[d] = NotFound
        /\ Len(args[d].records) = 2
        /\ Cardinality(records) = nextRecordId - 1
        /\ records # {}

\* the stored rows of batch b
RowsOf(rs, b) == {r \in rs : r.batch_id = b}

\* client c runs the statement at label in this step
Runs(c, label) == pc[c] = label /\ pc'[c] # pc[c]

\* C11: the INSERT of a bulk upload of N records either stores N new rows, one
\* per record of the request, and answers 201, or stores nothing and answers
\* 400; rows enter the store only in the INSERT step of the request they belong
\* to, and a step that removes a row of a batch removes every row of it, so no
\* state holds some but not all rows of one upload.
C11_BulkAllOrNothing ==
    [][/\ \A c \in Clients :
            Runs(c, "bulk_upload_records:insert") =>
                LET rl == args[c].records
                    new == records' \ records
                IN  /\ pc'[c] = "done"
                    /\ records \subseteq records'
                    /\ \/ /\ resp'[c].code = 201
                          /\ Cardinality(new) = Len(rl)
                          /\ \A i \in DOMAIN rl :
                                NewRow(nextRecordId + i - 1, args[c].batch_id, rl[i]) \in new
                       \/ /\ resp'[c].code = 400
                          /\ new = {}
       /\ (records' \ records # {}) =>
              \E c \in Clients :
                  /\ Runs(c, "bulk_upload_records:insert") \/ Runs(c, "create_record:insert")
                  /\ Cardinality(records' \ records) = Len(args[c].records)
       /\ \A b \in BatchArgs :
              RowsOf(records, b) \subseteq RowsOf(records', b) \/ RowsOf(records', b) = {}]_vars

\* a bulk upload of two records stored both while a reconciliation of the same
\* batch ran, and another of two records failed and stored none
C11_Witness ==
    \E c, d \in Clients :
        /\ Done(c, "bulk_upload_records") /\ resp[c].code = 201
        /\ Len(args[c].records) = 2
        /\ Done(d, "analyze_missing_records") /\ resp[d].code = 200
        /\ args[d].batch_id = args[c].batch_id
        /\ Cardinality(snaps[d]) = 2
        /\ Cardinality(RowsOf(records, args[c].batch_id)) >= 2

ProcessedIn(b) == {x \in StoredIds : HasRow(b, PROCESSED, x)}

\* C12: run alone on an existing batch, get_processing_status returns 200 with
\* expected_records strictly ascending and holding exactly the record_ids of
\* the batch's EXPECTED rows, each once, expected_count the number of those
\* identifiers, and the same for processed_records and processed_count.
C12_StatusViewDistinct ==
    \A c \in Clients :
        (Done(c, "get_processing_status") /\ args[c].batch_id \in DOMAIN batches) =>
            LET b == args[c].batch_id
                body == resp[c].body
            IN  /\ resp[c].code = 200
                /\ Ascending(body.expected_records)
                /\ Elems(body.expected_records) = ExpectedIn(b)
                /\ body.expected_count = Cardinality(ExpectedIn(b))
                /\ Ascending(body.processed_records)
                /\ Elems(body.processed_records) = ProcessedIn(b)
                /\ body.processed_count = Cardinality(ProcessedIn(b))

\* C13: run alone on an existing batch, get_batch_statistics returns 200 with
\* total_records the number of stored rows of the batch, whatever their status
\* and however often an identifier repeats, and missing_count the number of
\* distinct identifiers that an EXPECTED row and no PROCESSED row of it has.
C13_RowsAndDistinctMissing ==
    \A c \in Clients :
        (Done(c, "get_batch_statistics") /\ args[c].batch_id \in DOMAIN batches) =>
            LET b == args[c].batch_id
            IN  /\ resp[c].code = 200
                /\ resp[c].body.total_records = Cardinality(RowsOf(records, b))
                /\ resp[c].body.missing_count = Cardinality(ExpectedOnly(b))

\* duplicate rows: more rows than expected and processed identifiers together,
\* and a missing identifier stored twice counted once
C13_Witness ==
    \E c \in Clients :
        /\ Done(c, "get_batch_statistics") /\ resp[c].code = 200
        /\ resp[c].body.total_records >
               Cardinality(ExpectedIn(args[c].batch_id)) + Cardinality(ProcessedIn(args[c].batch_id))
        /\ resp[c].body.missing_count = 1
        /\ \E r1, r2 \in RowsOf(records, args[c].batch_id) :
               /\ r1.id # r2.id /\ r1.record_id = r2.record_id
               /\ r1.status = EXPECTED /\ r2.status = EXPECTED
               /\ r1.record_id \in ExpectedOnly(args[c].batch_id)

\* C14: run alone, find_missing_records returns the one result that every
\* order of the rows the two queries return, and every order list() iterates
\* the two differences in, leads to: the lists, the counts and the rate do not
\* depend on storage or iteration order.
C14_OrderIndependent ==
    \A c \in Clients :
        (Done(c, "analyze_missing_records") /\ resp[c].code = 200) =>
            find_missing_records_outcomes(get_batch_by_id(batches, args[c].batch_id),
                                          records, args[c].batch_id) = {resp[c].body}

\* a batch whose rows can come in several orders, with two missing identifiers
C14_Witness ==
    \E c \in Clients :
        /\ Done(c, "analyze_missing_records") /\ resp[c].code = 200
        /\ resp[c].body.missing_count = 2
        /\ resp[c].body.unexpected_count = 1
        /\ Cardinality(IdLists(records, args[c].batch_id, EXPECTED)) >= 2
        /\ Cardinality(RowsOf(records, args[c].batch_id)) = 5

\* C15: a clear-all-records request that arrives for a stored batch goes on to
\* its DELETE; the DELETE for batch b answers 200 with deleted_count the
\* number of rows b held just before, removes exactly the rows of b, and
\* leaves every batch, b included, and every row of another batch as it was.
C15_ClearAll ==
    [][\A c \in Clients :
        /\ (Sent(c) /\ args'[c].op = "clear_batch_records" /\ args'[c].batch_id \in DOMAIN batches)
              => (pc'[c] = "clear_batch_records:delete" /\ UNCHANGED store)
        /\ Runs(c, "clear_batch_records:delete") =>
              LET b == args[c].batch_id
              IN  /\ pc'[c] = "done"
                  /\ resp'[c].code = 200
                  /\ resp'[c].body.deleted_count = Cardinality(RowsOf(records, b))
                  /\ RowsOf(records', b) = {}
                  /\ records' = {r \in records : r.batch_id # b}
                  /\ batches' = batches
                  /\ b \in DOMAIN batches => b \in DOMAIN batches']_vars

\* two rows of a batch cleared; the batch and a row of another batch remain
C15_Witness ==
    \E c \in Clients :
        /\ Done(c, "clear_batch_records") /\ resp[c].code = 200
        /\ resp[c].body.deleted_count = 2
        /\ args[c].batch_id \in DOMAIN batches
        /\ RowsOf(records, args[c].batch_id) = {}
        /\ records # {}

\* row r repeats the batch, record_id and status of a row of rs
Repeats(r, rs) ==
    \E o \in rs : o.batch_id = r.batch_id /\ o.record_id = r.record_id /\ o.status = r.status

\* C16: a step that stores new rows, each with the batch, record_id and status
\* of a row stored before, leaves what find_missing_records returns for every
\* stored batch as it was: counts, both lists and the rate.
C16_DuplicatesCollapse ==
    [][(/\ records' \ records # {}
        /\ records \subseteq records'
        /\ \A r \in records' \ records : Repeats(r, records))
          => \A b \in DOMAIN batches :
                 find_missing_records_on(batches', records', b)
                     = find_missing_records_on(batches, records, b)]_vars

\* a created record that repeats a stored row of a batch with a missing identifier
C16_Witness ==
    \E c \in Clients :
        /\ Done(c, "create_record") /\ resp[c].code = 201
        /\ resp[c].body \in records
        /\ Repeats(resp[c].body, records \ {resp[c].body})
        /\ find_missing_records_on(batches, records, args[c].batch_id).missing_count = 1

\* C17: run alone on an existing batch, get_batch_statistics returns the
\* missing_count and the processing_rate that find_missing_records returns
\* for the same batch on the same store.
C17_StatisticsAgree ==
    \A c \in Clients :
        (Done(c, "get_batch_statistics") /\ args[c].batch_id \in DOMAIN batches) =>
            LET result == find_missing_records_on(batches, records, args[c].batch_id)
            IN  /\ resp[c].code = 200
                /\ resp[c].body.missing_count = result.missing_count
                /\ resp[c].body.processing_rate = result.processing_rate

\* statistics of a batch with one of three expected identifiers missing and
\* an unexpected one: 66.67
C17_Witness ==
    \E c \in Clients :
        /\ Done(c, "get_batch_statistics") /\ resp[c].code = 200
        /\ resp[c].body.missing_count = 1
        /\ resp[c].body.processing_rate = 6667
        /\ resp[c].body.processed_count = 2

\* C18: no two stored rows share an id; a step leaves every row that stays
\* stored with its record_id, batch_id and status, gives every row it stores
\* an id not used before, and removes a row only as the commit of a
\* delete-batch, or the DELETE of a clear-all-records, of the row's batch.
C18_RecordsImmutable ==
    /\ [](\A r, q \in records : r.id = q.id => r = q)
    /\ [](\A r \in records : r.id < nextRecordId)
    /\ [][/\ \A r \in records, q \in records' : q.id = r.id => q = r
          /\ \A q \in records' \ records : q.id >= nextRecordId
          /\ \A r \in records \ records' :
                \E c \in Clients :
                    /\ Runs(c, "delete_batch:commit") \/ Runs(c, "clear_batch_records:delete")
                    /\ args[c].batch_id = r.batch_id
                    /\ resp'[c].code = 200]_vars

\* a created record still stored as created, after a second record of its
\* batch and identifier with the other status was created
C18_Witness ==
    \E c, d \in Clients :
        /\ c # d
        /\ Done(c, "create_record") /\ resp[c].code = 201
        /\ Done(d, "create_record") /\ resp[d].code = 201
        /\ resp[c].body \in records /\ resp[d].body \in records
        /\ resp[c].body.batch_id = resp[d].body.batch_id
        /\ resp[c].body.record_id = resp[d].body.record_id
        /\ resp[c].body.status # resp[d].body.status

\* C19: the INSERT of a bulk upload of N records to batch b that answers 201
\* reports count N, leaves b with exactly N rows more than before, whatever
\* the request or the store repeats, and leaves the rows of every other batch
\* as they were.
C19_BulkCount ==
    [][\A c \in Clients :
        (Runs(c, "bulk_upload_records:insert") /\ resp'[c].code = 201) =>
            LET b == args[c].batch_id
                N == Len(args[c].records)
            IN  /\ resp'[c].body.count = N
                /\ Cardinality(RowsOf(records', b)) = Cardinality(RowsOf(records, b)) + N
                /\ \A o \in BatchArgs \ {b} : RowsOf(records', o) = RowsOf(records, o)]_vars

\* an upload of the same record twice, to a batch that held it already, stored
\* both; a row of another batch is still there
C19_Witness ==
    \E c \in Clients :
        /\ Done(c, "bulk_upload_records") /\ resp[c].code = 201
        /\ resp[c].body.count = 2
        /\ args[c].records[1] = args[c].records[2]
        /\ Cardinality({r \in RowsOf(records, args[c].batch_id) :
                            /\ r.record_id = args[c].records[1].record_id
                            /\ r.status = args[c].records[1].status}) = 3
        /\ records # RowsOf(records, args[c].batch_id)

\* every stored row has one of the two statuses, so a batch's rows are its
\* EXPECTED rows and its PROCESSED rows
StatusPartitions ==
    /\ \A r \in records : r.status \in RecordStatus
    /\ \A b \in BatchArgs :
           CountAll(records, b) = CountStatus(records, b, EXPECTED) + CountStatus(records, b, PROCESSED)

\* C20 (as claimed): every stored record is EXPECTED or PROCESSED, and every
\* statistics result has total_records = expected_count + processed_count,
\* also when other requests store or clear records between its count queries.
C20_TotalIsSum ==
    /\ StatusPartitions
    /\ \A c \in Clients :
           (Done(c, "get_batch_statistics") /\ resp[c].code = 200) =>
               resp[c].body.total_records
                   = resp[c].body.expected_count + resp[c].body.processed_count

\* C20 (amended): every stored record is EXPECTED or PROCESSED, so in every
\* store a batch's row count is the sum of its two status counts; each of the
\* three counts of a statistics result is the batch's count at one instant
\* during the request, and total_records = expected_count + processed_count
\* when the batch's counts did not change during the request.
C20_EachCountCurrent ==
    /\ StatusPartitions
    /\ \A c \in Clients :
           (Done(c, "get_batch_statistics") /\ resp[c].code = 200) =>
               /\ \E s1, s2, s3 \in snaps[c] :
                      /\ resp[c].body.total_records = s1[1]
                      /\ resp[c].body.expected_count = s2[2]
                      /\ resp[c].body.processed_count = s3[3]
               /\ \A s \in snaps[c] : s[1] = s[2] + s[3]
               /\ Cardinality(snaps[c]) = 1 =>
                      resp[c].body.total_records
                          = resp[c].body.expected_count + resp[c].body.processed_count

\* a statistics result whose counts do not add up: a record was stored between
\* the count queries
C20_Witness ==
    \E c \in Clients :
        /\ Done(c, "get_batch_statistics") /\ resp[c].code = 200
        /\ Cardinality(snaps[c]) >= 2
        /\ resp[c].body.total_records
               # resp[c].body.expected_count + resp[c].body.processed_count

\* C21: in every result of find_missing_records, missing_records and
\* unexpected_records share no identifier, missing_count and unexpected_count
\* are the lengths of the two lists, and total_expected - missing_count and
\* total_processed - unexpected_count both are the number of identifiers the
\* batch has both as EXPECTED and as PROCESSED.
C21_ResultConsistent ==
    \A c \in Clients :
        (Done(c, "analyze_missing_records") /\ resp[c].code = 200) =>
            LET body == resp[c].body
            IN  /\ Elems(body.missing_records) \cap Elems(body.unexpected_records) = {}
                /\ body.missing_count = Len(body.missing_records)
                /\ body.unexpected_count = Len(body.unexpected_records)
                /\ body.total_expected - body.missing_count
                       = body.total_processed - body.unexpected_count
                /\ body.total_expected - body.missing_count
                       = Cardinality(ExpectedAndProcessed(args[c].batch_id))

\* a result with a missing, an unexpected and a matched identifier
C21_Witness ==
    \E c \in Clients :
        /\ Done(c, "analyze_missing_records") /\ resp[c].code = 200
        /\ resp[c].body.missing_count = 1
        /\ resp[c].body.unexpected_count = 1
        /\ resp[c].body.total_expected = 2
        /\ resp[c].body.total_processed = 2

\* C22 (as claimed): in every result of find_missing_records
\* 0 <= processing_rate <= 100, and processing_rate is 100.0 exactly when
\* total_expected is at least 1 and missing_records is empty.
C22_HundredIffComplete ==
    \A c \in Clients :
        (Done(c, "analyze_missing_records") /\ resp[c].code = 200) =>
            LET body == resp[c].body
            IN  /\ 0 <= body.processing_rate /\ body.processing_rate <= 10000
                /\ body.processing_rate = 10000
                       <=> (body.total_expected >= 1 /\ body.missing_records = <<>>)

\* C22 (amended): in every result of find_missing_records
\* 0 <= processing_rate <= 100; processing_rate is 100.0 when total_expected
\* is at least 1 and missing_records is empty; when processing_rate is 100.0,
\* total_expected is at least 1 and at most one in 20000 of the expected
\* identifiers is missing, so with fewer than 20000 expected identifiers
\* processing_rate is 100.0 exactly when none is missing.
C22_HundredNearComplete ==
    \A c \in Clients :
        (Done(c, "analyze_missing_records") /\ resp[c].code = 200) =>
            LET body == resp[c].body
                complete == body.total_expected >= 1 /\ body.missing_records = <<>>
            IN  /\ 0 <= body.processing_rate /\ body.processing_rate <= 10000
                /\ complete => body.processing_rate = 10000
                /\ body.processing_rate = 10000 =>
                       /\ body.total_expected >= 1
                       /\ 20000 * body.missing_count <= body.total_expected
                /\ body.total_expected < 20000 =>
                       (body.processing_rate = 10000 <=> complete)

\* 100.0 reported while one expected identifier is missing
C22_Witness ==
    \E c \in Clients :
        /\ Done(c, "analyze_missing_records") /\ resp[c].code = 200
        /\ resp[c].body.processing_rate = 10000
        /\ resp[c].body.missing_count = 1
        /\ Len(resp[c].body.missing_records) = 1

\* the rows of batch b with status st, taken from the rows of b alone
OwnRows(b, st) == {r \in RowsOf(records, b) : r.status = st}
OwnIds(b, st) == {r.record_id : r \in OwnRows(b, st)}
OwnIdLists(b, st) == {[i \in DOMAIN o |-> o[i].record_id] : o \in Orderings(OwnRows(b, st))}

\* C23: every query of the three analysis operations for batch b reads what
\* the rows of b alone determine, so their results are those of the store
\* without the other batches; and a step that leaves batch b and the rows of b
\* as they are (a create, clear or delete of records of another batch among
\* them) leaves what the three operations return for b as it was.
C23_BatchIsolation ==
    /\ [][\A c \in Clients :
            LET b == args[c].batch_id
            IN  /\ Runs(c, "analyze_missing_records:expected") =>
                      local'[c].expected_ids = OwnIds(b, EXPECTED)
                /\ Runs(c, "analyze_missing_records:processed") =>
                      resp'[c].body = MissingRecordsResult(local[c].batch, local[c].expected_ids,
                                                           OwnIds(b, PROCESSED))
                /\ Runs(c, "get_processing_status:expected") =>
                      local'[c].expected_ids \in OwnIdLists(b, EXPECTED)
                /\ Runs(c, "get_processing_status:processed") =>
                      \E pl \in OwnIdLists(b, PROCESSED) :
                          resp'[c].body = ProcessingStatusResult(local[c].batch,
                                                                 local[c].expected_ids, pl)
                /\ Runs(c, "get_batch_statistics:total") =>
                      local'[c].total_records = Cardinality(RowsOf(records, b))
                /\ Runs(c, "get_batch_statistics:expected_count") =>
                      local'[c].expected_count = Cardinality(OwnRows(b, EXPECTED))
                /\ Runs(c, "get_batch_statistics:processed_count") =>
                      local'[c].processed_count = Cardinality(OwnRows(b, PROCESSED))
                /\ Runs(c, "get_batch_statistics:expected") =>
                      local'[c].expected_ids = OwnIds(b, EXPECTED)
                /\ Runs(c, "get_batch_statistics:processed") =>
                      resp'[c].body = BatchStatistics(local[c].batch, local[c].total_records,
                                                      local[c].expected_count,
                                                      local[c].processed_count,
                                                      local[c].expected_ids, OwnIds(b, PROCESSED))]_vars
    /\ [][\A b \in DOMAIN batches :
            (/\ b \in DOMAIN batches'
             /\ batches'[b] = batches[b]
             /\ RowsOf(records', b) = RowsOf(records, b)) =>
                /\ find_missing_records_on(batches', records', b)
                       = find_missing_records_on(batches, records, b)
                /\ get_processing_status_on(batches', records', b)
                       = get_processing_status_on(batches, records, b)
                /\ get_batch_statistics_on(batches', records', b)
                       = get_batch_statistics_on(batches, records, b)]_vars

\* the rows of one batch cleared while the statistics of another batch, which
\* holds rows, came out as that batch alone determines
C23_Witness ==
    \E c, d \in Clients :
        /\ Done(c, "clear_batch_records") /\ resp[c].code = 200
        /\ resp[c].body.deleted_count >= 1
        /\ Done(d, "get_batch_statistics") /\ resp[d].code = 200
        /\ args[d].batch_id # args[c].batch_id
        /\ resp[d].body.total_records >= 1
        /\ Cardinality(snaps[d]) = 1
        /\ resp[d].body = get_batch_statistics_on(batches, records, args[d].batch_id)

====
